---- MODULE Spec2Model ----
(***************************************************************************)
(* Chunked parallel transform / persist of omegaml lazy frames.            *)
(*                                                                         *)
(*   document-frame engine : omegaml/mixins/mdf/parallel.py                *)
(*                           (ParallelApplyMixin on MDataFrame)            *)
(*   relational engine     : omegaml/mixins/relational/parallel.py         *)
(*                           (ParallelMixin / MTransform on MTable)        *)
(*                                                                         *)
(* A behaviour is one client session on one frame `self`: a sequence of    *)
(* calls of transform / persist / .value, each of which may hand chunk     *)
(* jobs to the worker pool (at most MaxRuns times per session); the pool   *)
(* runs the jobs in any order.  resolve='worker' and local=False (the      *)
(* defaults) are fixed.                                                    *)
(***************************************************************************)
EXTENDS Integers, Sequences, FiniteSets, TLC

\* ---------------------------------------------------------------- bounds
NRows == 2          \* rows of the input collection
MaxChunksize == 2   \* chunksize arguments are 1..MaxChunksize
MaxRuns == 1        \* runs of the worker pool per session
NJobs == 2          \* transform(n_jobs=...): workers of the pool
RecursionLimit == 3 \* sys.getrecursionlimit(): frames on the call stack

\* transform(chunksize=50000)
DefaultChunksize == 50000

None == "None"

\* ---------------------------------------------------------------- names
SrcName == "src"
SrcColl == "src.datastore"
OutName == "out"
TmpColl == "_tmpsrc.datastore_"

\* OmegaStore._get_obj_store_key / OmegaStore.collection: the collection of
\* dataset `name` is name + '.datastore', unless name already ends with it
StoreKey(name) ==
    IF name \in {"src.datastore", "out.datastore"} THEN name
    ELSE name \o ".datastore"

Names == {None, OutName, SrcColl}

\* the store argument of persist(): none, an OmegaStore whose put() takes a
\* collection, or one whose put() raises TypeError for it
Stores == {None, "store", "oldstore"}
CollNames == {SrcColl, "out.datastore", OutName, TmpColl}

\* user functions: "nop" is pyappply_nop_transform / transform_nop,
\* "map" sets y = 2*x in place (the test's myfunc), "expand" returns every
\* row twice, "raise" raises on a chunk that holds the row x = 1 and is
\* "map" elsewhere
Fns == {"map", "expand", "raise"}
FnError == "ValueError(x)"

VARIABLES
    engine,        \* "mdf" | "rel": which mixin the frame carries
    args,          \* the session's arguments of transform() and persist()
    db,            \* collection name -> documents in natural order
    metas,         \* dataset names that have a Metadata entry in the store
    frame,         \* declared state of `self`
    pyapply_opts,  \* self._pyapply_opts (document-frame engine)
    mtransform,    \* self._transform (relational engine)
    pc,            \* "idle" | "pool"
    jobs,          \* the job list handed to Parallel
    jobState,      \* per job: "pending" | "done" | "raised"
    call,          \* the current (pc = "pool") or the last call
    run,           \* number of _do_transform / MTransform.run started
    last           \* the last call of the frame layer: operation,
                   \* arguments, state of `self` before it, what it returned

vars == <<engine, args, db, metas, frame, pyapply_opts,
          mtransform, pc, jobs, jobState, call, run, last>>

\* ------------------------------------------------------------ documents
\* a document: _om#rowid, the data column x, the derived column y, and two
\* bookkeeping fields of the model: the run and the chunk that inserted it
Doc(rowid, x, y, r, c) == [rowid |-> rowid, x |-> x, y |-> y, run |-> r, chunk |-> c]

\* om.datasets.put(large, 'src'): rows stamped 0..n-1 in natural order
SrcDocs == [p \in 1..NRows |-> Doc(p - 1, p - 1, 0, 0, 0)]

\* what an earlier persist() with a store that registers no metadata left
\* in a target collection
OldDocs == <<Doc(0, NRows, 0, 0, 0)>>

\* ------------------------------------------------------- filter criteria
\* a filter is a set of <<column, op, value>> constraints (a Mongo query
\* dict keyed by column)
Cmp(v, op, w) ==
    CASE op = "gte" -> v >= w
      [] op = "lte" -> v =< w
      [] op = "in"  -> v \in w
      [] OTHER      -> v = w

Matches(d, q) == \A c \in q : Cmp(d[c[1]], c[2], c[3])

\* dict.update: the constraints of g replace those of f on the same column
DictUpdate(f, g) == {c \in f : \A e \in g : e[1] # c[1]} \cup g

\* ------------------------------------------------------------ MDataFrame
MDataFrame(coll, q) ==
    [coll |-> coll, columns |-> <<"x">>, sort_order |-> None,
     head_limit |-> 0, skip_topn |-> 0, filter_criteria |-> q,
     force_columns |-> <<>>, from_loc_indexer |-> FALSE,
     from_loc_range |-> FALSE, class |-> "MDataFrame"]

\* a copy made from self.__getcopy_kwargs(): columns, sort_order, limit,
\* skip, from_loc_indexer and query are handed on; from_loc_range and
\* force_columns are not among the kwargs and start anew (from_loc_range
\* as None, which reads as not flagged: FALSE here)
getcopy_kwargs(mdf) ==
    [mdf EXCEPT !.from_loc_range = FALSE, !.force_columns = <<>>]

skip(mdf, topn) == [mdf EXCEPT !.skip_topn = topn]

head(mdf, limit) == [mdf EXCEPT !.head_limit = limit]

\* MDataFrame.query: a new frame of the same class, the new criteria put
\* over the frame's own by dict.update
query(mdf, q) ==
    [getcopy_kwargs(mdf) EXCEPT
         !.filter_criteria = DictUpdate(mdf.filter_criteria, q)]

\* Filter(collection, **kwargs).query: keyword pairs column[__suffix] =
\* value become the constraints of the native filter, all of which must hold
Filter(kwargs) ==
    {<<kw[1], IF kw[2] = None THEN "eq" ELSE kw[2], kw[3]>> : kw \in kwargs}

\* MDataFrame.sort
sort(mdf, columns) == [mdf EXCEPT !.sort_order = columns]

\* MDataFrame.query_inplace: the criteria replace the frame's own, the view
\* is rebuilt on the underlying collection
query_inplace(mdf, kwargs) == [mdf EXCEPT !.filter_criteria = Filter(kwargs)]

\* MDataFrame._as_mseries
as_mseries(mdf, column) ==
    [getcopy_kwargs(mdf) EXCEPT !.columns = <<column>>, !.class = "MSeries"]

\* MDataFrame.__getitem__: a column name [kind |-> "name", col] gives a
\* series, a list of column names [kind |-> "list", cols] a frame
getitem(mdf, cols) ==
    IF cols.kind = "name" THEN as_mseries(mdf, cols.col)
    ELSE [getcopy_kwargs(mdf) EXCEPT !.columns = cols.cols, !.class = "MDataFrame"]

\* -------------------------------------------------------------- indexers
\* an index spec: [kind |-> "scalar", v], [kind |-> "list", vs] (a list of
\* scalars), [kind |-> "slice", a, b] (a bound is <<n>>, an open end <<>>) or
\* [kind |-> "tuple", rows, cols]: a list or slice for the rows, then a
\* column name
Range(seq) == {seq[k] : k \in 1..Len(seq)}

\* a slice whose stop is taken as it is, also for positional slices
slice_filter_inclusive(col, a, b, positional) ==
    (IF a # <<>> THEN {<<col, "gte", a[1]>>} ELSE {})
        \cup (IF b # <<>> THEN {<<col, "lte", b[1]>>} ELSE {})

\* the constraints of a slice a:b on column col; positional slices have
\* their stop lowered by one
slice_filter(col, a, b, positional) ==
    (IF a # <<>> THEN {<<col, "gte", a[1]>>} ELSE {})
        \cup (IF b # <<>>
              THEN {<<col, "lte", IF positional THEN b[1] - 1 ELSE b[1]>>}
              ELSE {})

\* str as an iterable: the characters list.extend(name) appends
Chars(name) ==
    CASE name = "idx" -> <<"i", "d", "x">>
      [] OTHER -> <<name>>

\* MPosIndexer._get_projection, as projection.extend() receives it: for a
\* scalar the string columns[spec]; for a list the entries of spec whose
\* position in spec is itself an entry of spec; for a slice columns[0:len]
\* (start and stop are read from the type `slice`, not from spec)
pos_get_projection(columns, pcols) ==
    CASE pcols.kind = "scalar" -> Chars(columns[pcols.v + 1])
      [] pcols.kind = "list" ->
             LET kept == {i \in 1..Len(pcols.vs) : i - 1 \in Range(pcols.vs)}
                 \* the integer p standing where a column name is expected
                 IntColumn(p) == CASE p = 0 -> "0" [] p = 1 -> "1" [] OTHER -> "2"
                 RECURSIVE Keep(_)
                 Keep(i) == IF i > Len(pcols.vs) THEN <<>>
                            ELSE (IF i \in kept THEN <<IntColumn(pcols.vs[i])>>
                                  ELSE <<>>) \o Keep(i + 1)
             IN  Keep(1)
      [] OTHER -> columns

\* MLocIndexer._get_filter on a frame with one index column:
\* the filter keywords, the projection and the indexer's _from_range.
\* [kind |-> "ptuple", rows, pcols] is iloc[rows, pcols] with positions for
\* the columns: iloc[int, int] is the cell access, iloc[int, list] is taken
\* for a list of row positions (the list among them matches no rowid), any
\* other pair goes through the loop over index columns and then columns
get_filter(columns, spec, positional) ==
    LET col  == IF positional THEN "rowid" ELSE "idx"
        rows == IF spec.kind \in {"tuple", "ptuple"} THEN spec.rows ELSE spec
        proj == IF spec.kind = "tuple" THEN <<spec.cols>>
                ELSE IF spec.kind = "ptuple"
                     THEN IF rows.kind = "scalar" /\ spec.pcols.kind = "list"
                          THEN <<>>
                          ELSE pos_get_projection(columns, spec.pcols)
                ELSE <<>>
    IN  IF rows.kind = "scalar"
        THEN IF spec.kind = "ptuple" /\ spec.pcols.kind = "list"
             THEN [flt |-> {<<col, "in", {rows.v}>>}, projection |-> proj,
                   from_range |-> TRUE]
             ELSE [flt |-> {<<col, "eq", rows.v>>}, projection |-> proj,
                   from_range |-> FALSE]
        ELSE IF rows.kind = "list"
        THEN [flt |-> {<<col, "in", Range(rows.vs)>>}, projection |-> proj,
              from_range |-> TRUE]
        ELSE [flt |-> slice_filter(col, rows.a, rows.b, positional),
              projection |-> proj, from_range |-> TRUE]

\* MLocIndexer.__getitem__ (immediate_loc is off)
loc_getitem(mdf, spec, positional) ==
    LET f   == get_filter(mdf.columns, spec, positional)
        df1 == IF f.flt # {}
               THEN [query(mdf, f.flt) EXCEPT !.from_loc_indexer = TRUE,
                                              !.from_loc_range = f.from_range]
               ELSE mdf
        df2 == IF f.projection # <<>>
               THEN getitem(df1, [kind |-> "list", cols |-> f.projection])
               ELSE df1
    IN  IF mdf.class = "MSeries" THEN as_mseries(df2, df2.columns[1]) ELSE df2

\* mdf.iloc[a:b]
iloc(mdf, a, b) ==
    loc_getitem(mdf, [kind |-> "slice", a |-> <<a>>, b |-> <<b>>], TRUE)

Drop(s, k) == IF k >= Len(s) THEN <<>> ELSE SubSeq(s, k + 1, Len(s))

Take(s, k) == IF k >= Len(s) THEN s ELSE SubSeq(s, 1, k)

Filtered(dbx, mdf) ==
    SelectSeq(dbx[mdf.coll], LAMBDA d : Matches(d, mdf.filter_criteria))

RECURSIVE SortBy(_, _, _)
\* cursor.sort([(col, dir)]): dir 1 ascending, -1 descending; documents
\* with equal keys stay in natural order
SortBy(s, col, dir) ==
    IF s = <<>> THEN <<>>
    ELSE LET d    == s[Len(s)]
             rest == SortBy(SubSeq(s, 1, Len(s) - 1), col, dir)
             lo   == SelectSeq(rest, LAMBDA e : dir * e[col] =< dir * d[col])
             hi   == SelectSeq(rest, LAMBDA e : dir * e[col] > dir * d[col])
         IN  lo \o <<d>> \o hi

\* MDataFrame._get_cursor + .value: find, then sort, skip and limit
Value(dbx, mdf) ==
    LET found   == Filtered(dbx, mdf)
        sorted  == IF mdf.sort_order # None
                   THEN SortBy(found, mdf.sort_order[1], mdf.sort_order[2])
                   ELSE found
        skipped == IF mdf.skip_topn # 0 THEN Drop(sorted, mdf.skip_topn)
                   ELSE sorted
    IN  IF mdf.head_limit # 0 THEN Take(skipped, mdf.head_limit) ELSE skipped

\* MDataFrame.__len__: cursor.count() does not apply skip and limit
Count(dbx, mdf) == Len(Filtered(dbx, mdf))

\* ------------------------------------------------------ chunk processing
\* the user function on a resolved chunk: <<raised, rows>>
ApplyFn(fn, rows) ==
    CASE fn = "raise" /\ (\E k \in 1..Len(rows) : rows[k].x = 1) ->
             [raised |-> TRUE, rows |-> <<>>]
      [] fn = "expand" ->
             [raised |-> FALSE, rows |-> rows \o rows]
      [] fn = "nop" ->
             [raised |-> FALSE, rows |-> rows]
      [] OTHER ->
             [raised |-> FALSE,
              rows |-> [k \in 1..Len(rows) |-> [rows[k] EXCEPT !.y = 2 * rows[k].x]]]

\* chunkdf['_om#rowid'] = pd.RangeIndex(start, end)
Stamp(rows, start, r, c) ==
    [k \in 1..Len(rows) |-> Doc(start + k - 1, rows[k].x, rows[k].y, r, c)]

\* process_chunk with the user function's exception swallowed instead of
\* re-raised: the chunk is left out and the job ends normally
process_chunk_swallow(dbx, mdf, i, chunksize, applyfn, outcoll, r) ==
    LET chunkdf == Value(dbx, mdf)
        res     == ApplyFn(applyfn, chunkdf)
        start   == i * chunksize
    IN  IF Len(chunkdf) = 0
        THEN [called |-> FALSE, fnexc |-> None, raised |-> None, arg |-> None,
              db |-> dbx]
        ELSE IF res.raised
        THEN [called |-> TRUE, fnexc |-> FnError, raised |-> None,
              arg |-> None, db |-> dbx]
        ELSE [called |-> TRUE, fnexc |-> None, raised |-> None, arg |-> None,
              db |-> IF Len(res.rows) # 0
                     THEN [dbx EXCEPT ![outcoll] = @ \o Stamp(res.rows, start, r, i)]
                     ELSE dbx]

\* pyapply_process_chunk / transform_process_chunk with resolve=True: the
\* outcome of one job on database dbx.  fnexc is the exception the user
\* function raised (None if it returned), raised the exception that leaves
\* the worker: raise RuntimeError(e)
process_chunk(dbx, mdf, i, chunksize, applyfn, outcoll, r) ==
    LET chunkdf == Value(dbx, mdf)
        res     == ApplyFn(applyfn, chunkdf)
        start   == i * chunksize
    IN  IF Len(chunkdf) = 0
        THEN [called |-> FALSE, fnexc |-> None, raised |-> None, arg |-> None,
              db |-> dbx]
        ELSE IF res.raised
        THEN [called |-> TRUE, fnexc |-> FnError, raised |-> "RuntimeError",
              arg |-> FnError, db |-> dbx]
        ELSE [called |-> TRUE, fnexc |-> None, raised |-> None, arg |-> None,
              db |-> IF Len(res.rows) # 0
                     THEN [dbx EXCEPT ![outcoll] = @ \o Stamp(res.rows, start, r, i)]
                     ELSE dbx]

\* ------------------------------------------------------------- chunkers
\* len(range(0, maxobs, chunksize))
NChunks(chunksize, maxobs) == (maxobs + chunksize - 1) \div chunksize

\* the skip/limit branch yields one and the same frame object, mutated by
\* skip() and head() before each yield; this is its state at yield k
YieldedSkipLimit(mdf, chunksize, k) ==
    head(skip(mdf, k * chunksize), k * chunksize + chunksize)

\* ParallelApplyMixin._chunker, as the job list holds it once the list
\* comprehension has exhausted the generator
chunker(mdf, chunksize, maxobs) ==
    LET n == NChunks(chunksize, maxobs)
    IN  IF mdf.filter_criteria # {}
        THEN [k \in 1..n |-> YieldedSkipLimit(mdf, chunksize, n - 1)]
        ELSE [k \in 1..n |-> iloc(mdf, (k - 1) * chunksize,
                                       (k - 1) * chunksize + chunksize)]

\* MTransform._chunker / MTable.iterchunks: the rows of the executed
\* statement, one chunk per row, whatever chunksize and maxobs are
rel_chunker(dbx, in_lazy, chunksize, maxobs) ==
    [k \in 1..Count(dbx, in_lazy) |-> iloc(in_lazy, k - 1, k)]

\* ------------------------------------------------------- pending transform
NoOpts ==
    [active |-> FALSE, maxobs |-> 0, chunksize |-> 0, applyfn |-> "nop",
     mdf |-> MDataFrame(SrcColl, {}), append |-> FALSE, outname |-> None]

\* ParallelApplyMixin.transform: self._pyapply_opts.update({...})
TransformOpts(self, fn, maxobs, chunksize) ==
    [active |-> TRUE, maxobs |-> maxobs, chunksize |-> chunksize,
     applyfn |-> fn, mdf |-> getcopy_kwargs(self), append |-> FALSE,
     outname |-> "_tmp" \o self.coll \o "_"]

NoTransform ==
    [active |-> FALSE, maxobs |-> 0, chunksize |-> 0, applyfn |-> "nop",
     in_lazy |-> MDataFrame(SrcColl, {})]

\* MTransform.__init__
MTransform(in_lazy, fn, maxobs, chunksize) ==
    [active |-> TRUE, maxobs |-> maxobs, chunksize |-> chunksize,
     applyfn |-> fn, in_lazy |-> in_lazy]

\* ParallelApplyMixin._do_transform up to p(jobs): the output collection
\* is dropped unless append, the chunker runs, the job list is built
do_transform(opts, dbx) ==
    LET outname == opts.outname
        chunks  == chunker(opts.mdf, opts.chunksize, opts.maxobs)
    IN  IF outname = None
        THEN [error |-> "TypeError", db |-> dbx, dropped |-> {},
              jobs |-> <<>>, opts |-> opts]
        ELSE [error |-> None,
              db |-> IF ~opts.append THEN [dbx EXCEPT ![outname] = <<>>] ELSE dbx,
              dropped |-> IF ~opts.append THEN {outname} ELSE {},
              jobs |-> [k \in 1..Len(chunks) |-> [mdf |-> chunks[k], i |-> k - 1]],
              opts |-> IF Len(chunks) > 0 /\ opts.mdf.filter_criteria # {}
                       THEN [opts EXCEPT !.mdf = chunks[Len(chunks)]]
                       ELSE opts]

\* MTransform.run up to p(jobs): nothing is dropped
mtransform_run(t, out_lazy, dbx) ==
    LET chunks == rel_chunker(dbx, t.in_lazy, t.chunksize, t.maxobs)
    IN  [error |-> None, db |-> dbx, dropped |-> {},
         jobs |-> [k \in 1..Len(chunks) |-> [mdf |-> chunks[k], i |-> k - 1]]]

\* OmegaStore.drop(name, force=True): drops the collection of a dataset
\* that has metadata, and is a no-op for one that has none
store_drop(name, dbx, ms) ==
    IF name \in ms
    THEN [db |-> [dbx EXCEPT ![StoreKey(name)] = <<>>], metas |-> ms \ {name},
          dropped |-> {StoreKey(name)}]
    ELSE [db |-> dbx, metas |-> ms, dropped |-> {}]

\* persist() lines 78-90 and ParallelMixin._generate_outcoll: the target
\* given as (name, store).  `unbound` is what the else-less path yields:
\* None in persist(), UnboundLocalError in _generate_outcoll
generate_outcoll(name, store, append, selfcoll, dbx, ms, unbound) ==
    IF name # None /\ store # None
    THEN LET coll == StoreKey(name)
             d    == IF ~append THEN store_drop(name, dbx, ms)
                     ELSE [db |-> dbx, metas |-> ms, dropped |-> {}]
         IN  IF coll = selfcoll
             THEN [error |-> "ValueError", name |-> name, meta |-> FALSE,
                   coll |-> coll, db |-> dbx, metas |-> ms, dropped |-> {}]
             ELSE IF store = "store"
             THEN [error |-> None, name |-> coll, meta |-> TRUE, coll |-> coll,
                   db |-> d.db, metas |-> d.metas \cup {name}, dropped |-> d.dropped]
             ELSE [error |-> None, name |-> name, meta |-> FALSE, coll |-> coll,
                   db |-> d.db, metas |-> d.metas, dropped |-> d.dropped]
    ELSE [error |-> unbound, name |-> name, meta |-> FALSE, coll |-> None,
          db |-> dbx, metas |-> ms, dropped |-> {}]

\* ---------------------------------------------------------------- calls
ArgSets ==
    [fn : Fns, chunksize : 1..MaxChunksize, maxobs : {0, NRows - 1},
     name : Names, store : Stores, append : BOOLEAN]

NoCall ==
    [op |-> "none", name |-> None, store |-> None, append |-> FALSE,
     target |-> None, meta |-> FALSE, chunksize |-> 0, applyfn |-> "nop",
     outcome |-> "none", error |-> None, cause |-> None, result |-> None,
     dispatched |-> 0, dropped |-> {}, fncalls |-> 0, fnraised |-> 0,
     writes |-> 0,
     frame0 |-> MDataFrame(SrcColl, {}), opts0 |-> NoOpts,
     db0 |-> [c \in CollNames |-> <<>>]]

\* a call of the frame layer: its arguments, `self` before it, the frame
\* it returned (None if it returned none), whether that is `self`, and
\* any other result
FrameCall(op, arg, self0, out, is_self, result) ==
    [op |-> op, arg |-> arg, self0 |-> self0, out |-> out,
     is_self |-> is_self, result |-> result]

\* no call of the frame layer made
NoLast == FrameCall("none", None, None, None, FALSE, None)

NewCall(op) ==
    [NoCall EXCEPT !.op = op, !.outcome = "running", !.frame0 = frame,
                   !.opts0 = pyapply_opts, !.db0 = db]

Returned(c, outcome, result) ==
    [c EXCEPT !.outcome = outcome, !.result = result]

Raised(c, error, cause) ==
    [c EXCEPT !.outcome = "error", !.error = error, !.cause = cause]

Init ==
    /\ engine \in {"mdf", "rel"}
    /\ args \in ArgSets
    /\ db = [c \in CollNames |->
                IF c = SrcColl THEN SrcDocs
                ELSE IF c \in {OutName, StoreKey(OutName)} THEN OldDocs
                ELSE <<>>]
    /\ metas = {SrcName}
    /\ frame \in {MDataFrame(SrcColl, {}), MDataFrame(SrcColl, {<<"x", "gte", 0>>})}
    /\ pyapply_opts = NoOpts
    /\ mtransform = NoTransform
    /\ pc = "idle"
    /\ jobs = <<>>
    /\ jobState = <<>>
    /\ call = NoCall
    /\ run = 0
    /\ last = NoLast

CanCall == pc = "idle"

\* the call ends without reaching the pool
EndCall(c) ==
    /\ call' = c
    /\ pc' = "idle"
    /\ jobs' = <<>>
    /\ jobState' = <<>>
    /\ UNCHANGED <<last, engine, args, frame, run>>

\* with Parallel(...) as p: p(jobs)
StartPool(c, plan, target) ==
    /\ run < MaxRuns
    /\ call' = [c EXCEPT !.target = target,
                         !.dispatched = Len(plan.jobs),
                         !.dropped = @ \cup plan.dropped]
    /\ pc' = "pool"
    /\ jobs' = plan.jobs
    /\ jobState' = [k \in 1..Len(plan.jobs) |-> "pending"]
    /\ db' = plan.db
    /\ run' = run + 1
    /\ UNCHANGED <<last, engine, args, frame>>

\* MDataFrame-side _get_cursor of the mixin: a pending transform is run,
\* anything else is a plain query
GetCursor(c) ==
    IF engine = "mdf" /\ pyapply_opts.active
    THEN LET plan == do_transform(pyapply_opts, db)
             c1   == [c EXCEPT !.chunksize = pyapply_opts.chunksize,
                               !.applyfn = pyapply_opts.applyfn,
                               !.append = pyapply_opts.append]
         IN  IF plan.error # None
             THEN /\ EndCall(Raised(c1, plan.error, None))
                  /\ UNCHANGED <<db, metas, pyapply_opts, mtransform>>
             ELSE /\ StartPool(c1, plan, pyapply_opts.outname)
                  /\ pyapply_opts' = plan.opts
                  /\ UNCHANGED <<metas, mtransform>>
    ELSE /\ EndCall(Returned(c, "value", frame.coll))
         /\ UNCHANGED <<db, metas, pyapply_opts, mtransform>>

\* frame.value
ValueCall ==
    /\ CanCall
    /\ GetCursor(NewCall("value"))

\* ParallelApplyMixin.transform / ParallelMixin.transform
Transform ==
    /\ CanCall
    /\ LET c == NewCall("transform")
       IN  IF engine = "rel"
           THEN /\ mtransform' = MTransform(frame, args.fn, args.maxobs, args.chunksize)
                /\ EndCall(Returned(c, "self", None))
                /\ UNCHANGED <<db, metas, pyapply_opts>>
           ELSE IF args.maxobs = 0 /\ pyapply_opts.active
           THEN \* maxobs or len(self): len() resolves the pending transform
                GetCursor(c)
           ELSE /\ pyapply_opts' =
                       TransformOpts(frame, args.fn,
                                     IF args.maxobs # 0 THEN args.maxobs
                                     ELSE Count(db, frame),
                                     args.chunksize)
                /\ EndCall(Returned(c, "self", None))
                /\ UNCHANGED <<db, metas, mtransform>>

\* ParallelApplyMixin.persist
PersistMdf ==
    /\ CanCall
    /\ engine = "mdf"
    /\ LET c0   == [NewCall("persist") EXCEPT !.name = args.name,
                                              !.store = args.store,
                                              !.append = args.append]
           \* persist(name) with nothing pending: self.transform() first
           opts0 == IF pyapply_opts.active THEN pyapply_opts
                    ELSE TransformOpts(frame, "nop", Count(db, frame), DefaultChunksize)
           g    == generate_outcoll(args.name, args.store, args.append, frame.coll,
                                    db, metas, None)
           opts1 == [opts0 EXCEPT !.outname = g.name, !.append = args.append]
           plan == do_transform(opts1, g.db)
           c1   == [c0 EXCEPT !.meta = g.meta, !.dropped = g.dropped,
                              !.chunksize = opts1.chunksize,
                              !.applyfn = opts1.applyfn]
       IN  IF ~pyapply_opts.active /\ args.name = None
           THEN \* super().persist(): MDataFrame has none
                /\ EndCall(Raised(c0, "AttributeError", None))
                /\ UNCHANGED <<db, metas, pyapply_opts, mtransform>>
           ELSE IF g.error # None
           THEN /\ EndCall(Raised(c0, g.error, None))
                /\ pyapply_opts' = opts0
                /\ UNCHANGED <<db, metas, mtransform>>
           ELSE IF plan.error # None
           THEN /\ EndCall(Raised(c1, plan.error, None))
                /\ pyapply_opts' = opts1
                /\ db' = g.db
                /\ metas' = g.metas
                /\ UNCHANGED mtransform
           ELSE /\ StartPool(c1, plan, opts1.outname)
                /\ pyapply_opts' = plan.opts
                /\ metas' = g.metas
                /\ UNCHANGED mtransform

\* ParallelMixin.persist
PersistRel ==
    /\ CanCall
    /\ engine = "rel"
    /\ LET c0   == [NewCall("persist") EXCEPT !.name = args.name,
                                              !.store = args.store,
                                              !.append = args.append]
           g    == generate_outcoll(args.name, args.store, args.append, frame.coll,
                                    db, metas, "UnboundLocalError")
           plan == mtransform_run(mtransform, g.coll, g.db)
           c1   == [c0 EXCEPT !.meta = g.meta, !.dropped = g.dropped,
                              !.chunksize = mtransform.chunksize,
                              !.applyfn = mtransform.applyfn]
       IN  IF ~mtransform.active
           THEN \* assert self._transform is not None
                /\ EndCall(Raised(c0, "AssertionError", None))
                /\ UNCHANGED <<db, metas, pyapply_opts, mtransform>>
           ELSE IF g.error # None
           THEN /\ EndCall(Raised(c0, g.error, None))
                /\ UNCHANGED <<db, metas, pyapply_opts, mtransform>>
           ELSE /\ StartPool(c1, plan, g.coll)
                /\ metas' = g.metas
                /\ UNCHANGED <<pyapply_opts, mtransform>>

\* ------------------------------------------------------------ the pool
\* one job runs in a worker.  Parallel hands the jobs out in list order, at
\* most NJobs of them are in flight, and they end in any order
RunJob(k) ==
    /\ pc = "pool"
    /\ k \in 1..Len(jobs)
    /\ jobState[k] = "pending"
    /\ Cardinality({j \in 1..(k - 1) : jobState[j] = "pending"}) < NJobs
    /\ LET res == process_chunk(db, jobs[k].mdf, jobs[k].i, call.chunksize,
                                call.applyfn, call.target, run)
       IN  /\ db' = res.db
           /\ jobState' = [jobState EXCEPT
                               ![k] = IF res.raised # None THEN "raised" ELSE "done"]
           /\ call' = [call EXCEPT
                           !.fncalls = @ + (IF res.called THEN 1 ELSE 0),
                           !.fnraised = @ + (IF res.fnexc # None THEN 1 ELSE 0),
                           !.writes = @ + (IF res.db # db THEN 1 ELSE 0),
                           !.error = IF res.raised # None THEN res.raised ELSE @,
                           !.cause = IF res.raised # None THEN res.arg ELSE @]
    /\ UNCHANGED <<last, engine, args, metas, frame, pyapply_opts,
                   mtransform, pc, jobs, run>>

\* a job raised: Parallel re-raises its RuntimeError(e) in the caller
PoolAbort ==
    /\ pc = "pool"
    /\ \E k \in 1..Len(jobs) : jobState[k] = "raised"
    /\ call' = Raised(call, call.error, call.cause)
    /\ pc' = "idle"
    /\ UNCHANGED <<last, engine, args, db, metas, frame, pyapply_opts,
                   mtransform, jobs, jobState, run>>

\* every job is done: the call that started the pool goes on to its end
PoolFinish ==
    /\ pc = "pool"
    /\ \A k \in 1..Len(jobs) : jobState[k] = "done"
    /\ pc' = "idle"
    /\ IF engine = "rel"
       THEN \* return self.out_lazy
            /\ call' = Raised(call, "AttributeError", None)
            /\ UNCHANGED pyapply_opts
       ELSE IF call.op = "persist"
       THEN \* result = meta or self.__class__(coll, ...)
            /\ call' = Returned(call, IF call.meta THEN "meta" ELSE "frame", call.target)
            /\ UNCHANGED pyapply_opts
       ELSE IF call.op = "transform"
       THEN \* maxobs or len(self), then the update of the options
            /\ pyapply_opts' =
                   TransformOpts(frame, args.fn, Len(db[call.target]), args.chunksize)
            /\ call' = Returned(call, "self", None)
       ELSE /\ call' = Returned(call, "value", call.target)
            /\ UNCHANGED pyapply_opts
    /\ UNCHANGED <<last, engine, args, db, metas, frame, mtransform,
                   jobs, jobState, run>>

Next ==
    \/ Transform
    \/ PersistMdf
    \/ PersistRel
    \/ ValueCall
    \/ \E k \in 1..(NRows + 1) : RunJob(k)
    \/ PoolAbort
    \/ PoolFinish

Spec == Init /\ [][Next]_vars

TypeOK ==
    /\ pc \in {"idle", "pool"}
    /\ run \in 0..MaxRuns
    /\ Len(jobs) = Len(jobState)

\* ========================================================= frame layer
\* MDataFrame / MSeries, the indexers and the filtered collection view
\* (omegaml/mdataframe.py, omegaml/store/filtered.py).  A behaviour of
\* FrameSpec is a client working on one frame `self` over a collection whose
\* rows carry _om#rowid, one index column idx and the data columns x and y.

\* a document of the frame's collection
Row(rowid, idx, x, y) == [rowid |-> rowid, idx |-> idx, x |-> x, y |-> y]

\* values of the index column
IdxValues == 0..1

\* the collections om.datasets.put(df, 'src') can leave for a frame of NRows
\* rows: rows stamped 0..n-1, x the position, any index values
FrameDocs == {[p \in 1..NRows |-> Row(p - 1, ix[p], p - 1, 0)] :
                  ix \in [1..NRows -> IdxValues]}

\* ------------------------------------------------------------ resolution
\* .value without the branch for one column of several rows
value_shape_no_column(dbx, mdf) ==
    LET n == Len(Value(dbx, mdf))
        m == IF n = 0 THEN 0 ELSE Len(mdf.columns)
    IN  IF mdf.class = "MSeries"
        THEN IF n = 1 /\ mdf.from_loc_indexer THEN "scalar" ELSE "column"
        ELSE IF ~mdf.from_loc_indexer THEN "table"
        ELSE IF n = 1 /\ ~mdf.from_loc_range
        THEN IF m = 1 THEN "scalar" ELSE "row"
        ELSE "table"

\* the shape of what .value returns: MDataFrame.value collapses a frame
\* that comes from an indexer and has no range flag set; MSeries.value
\* returns the column, or its only value for a frame from an indexer.
\* An empty cursor gives a table without columns.
value_shape(dbx, mdf) ==
    LET n == Len(Value(dbx, mdf))
        m == IF n = 0 THEN 0 ELSE Len(mdf.columns)
    IN  IF mdf.class = "MSeries"
        THEN IF n = 1 /\ mdf.from_loc_indexer THEN "scalar" ELSE "column"
        ELSE IF ~mdf.from_loc_indexer THEN "table"
        ELSE IF n = 1 /\ ~mdf.from_loc_range
        THEN IF m = 1 THEN "scalar" ELSE "row"
        ELSE IF m = 1 /\ ~mdf.from_loc_range THEN "column"
        ELSE "table"

\* ------------------------------------------------ filtered collection
\* the outcome of a call: the error raised, or the value returned
Fails(error) == [raised |-> error, value |-> None]
Built(value) == [raised |-> None, value |-> value]

\* FilteredCollection: `query = dict(self.query); query.update(filter or {})`
view_query(fixed, filter) == DictUpdate(fixed, filter)

\* FilteredCollection.find
view_find(docs, fixed, filter) ==
    SelectSeq(docs, LAMBDA d : Matches(d, view_query(fixed, filter)))

\* FilteredCollection.find_one, FilteredCollection.count,
\* FilteredCollection.distinct: the documents the call reads and its result
view_find_one(docs, fixed, filter) ==
    LET found == view_find(docs, fixed, filter)
    IN  [seen |-> Take(found, 1),
         value |-> IF found = <<>> THEN None ELSE found[1]]

view_count(docs, fixed, filter) ==
    [seen |-> view_find(docs, fixed, filter),
     value |-> Len(view_find(docs, fixed, filter))]

view_distinct(docs, key, fixed, filter) ==
    [seen |-> view_find(docs, fixed, filter),
     value |-> {d[key] : d \in Range(view_find(docs, fixed, filter))}]

\* qops.MATCH
MATCH(q) == [stage |-> "$match", q |-> q]

\* FilteredCollection.aggregate: the pipeline and the options handed to
\* collection.aggregate, and the documents that pass its first stage
view_aggregate(docs, fixed, pipeline, filter, kwargs) ==
    [pipeline |-> <<MATCH(view_query(fixed, filter))>> \o pipeline,
     kwargs   |-> DictUpdate(kwargs, {<<"allowDiskUse", TRUE>>}),
     seen     |-> view_find(docs, fixed, filter)]

\* Collection.list_indexes(): every collection has the index on _id
collection_list_indexes(coll) == <<[name |-> "_id_", ns |-> coll]>>

RECURSIVE view_list_indexes(_, _)
\* FilteredCollection.list_indexes: `return self.list_indexes(**kwargs)`,
\* the method calls itself; at depth RecursionLimit the interpreter raises
\* 'maximum recursion depth exceeded'
view_list_indexes(coll, depth) ==
    IF depth >= RecursionLimit THEN Fails("RuntimeError")
    ELSE view_list_indexes(coll, depth + 1)

\* MDataFrame.list_indexes: self.collection is the collection itself for a
\* frame without a filter and a FilteredCollection for one with a filter
list_indexes(mdf) ==
    IF mdf.filter_criteria = {} THEN Built(collection_list_indexes(mdf.coll))
    ELSE view_list_indexes(mdf.coll, 1)

\* a view that hands the write on to the collection
view_write_through(op, docs) ==
    [error |-> None,
     docs  |-> IF op = "remove" THEN <<>> ELSE Append(docs, Row(Len(docs), 0, 0, 0))]

\* FilteredCollection.insert / update / remove / save
view_write(op, docs) == [error |-> "NotImplementedError", docs |-> docs]

\* ---------------------------------------------------------------- grouper
\* the key of a document for the group columns cols: {k: "$k" for k in columns}
GroupKey(d, cols) == [c \in Range(cols) |-> d[c]]

RECURSIVE SortKeys(_, _)
\* the keys of the set S in ascending order under qops.SORT on _id: keys
\* compare column by column
SortKeys(S, cols) ==
    LET RECURSIVE KeyLess(_, _, _)
        KeyLess(a, b, cs) ==
            IF cs = <<>> THEN FALSE
            ELSE IF a[cs[1]] # b[cs[1]] THEN a[cs[1]] < b[cs[1]]
            ELSE KeyLess(a, b, Drop(cs, 1))
    IN  IF S = {} THEN <<>>
        ELSE LET lo == CHOOSE k \in S : \A o \in S \ {k} : KeyLess(k, o, cols)
             IN  <<lo>> \o SortKeys(S \ {lo}, cols)

\* a grouper that groups the documents of the underlying collection
grouper_count_all(docs, fixed, cols) ==
    SortKeys({GroupKey(d, cols) : d \in Range(docs)}, cols)

\* MGrouper._count: $group on the group columns through the frame's view
\* (its match stage first), sorted by _id: the keys of the groups
grouper_count(docs, fixed, cols) ==
    SortKeys({GroupKey(d, cols) :
                  d \in Range(view_aggregate(docs, fixed, <<>>, {}, {}).seen)},
             cols)

\* Filter(collection, **keys).value: the documents of the collection that
\* have the key values, read through the collection's find()
filter_value(docs, fixed, key) ==
    view_find(docs, fixed, Filter({<<c, None, key[c]>> : c \in DOMAIN key}))

\* MGrouper.__iter__: for every group its key and the Filter on the frame's
\* collection, given here with the rows it resolves to
grouper_iter(docs, fixed, cols) ==
    LET groups == grouper_count(docs, fixed, cols)
    IN  [i \in 1..Len(groups) |->
            [key |-> groups[i], rows |-> filter_value(docs, fixed, groups[i])]]

\* ------------------------------------------------- arguments of the calls

\* keyword arguments of query(): column, suffix (None for none), value
QueryArgs == {{<<"x", "gte", 1>>}, {<<"x", "lte", 0>>}, {<<"idx", None, 0>>}}

\* filter= arguments of the view's methods (None is the empty filter)
CallerFilters == {{}} \cup {Filter(kw) : kw \in QueryArgs}

\* keyword arguments of query_inplace()
InplaceArgs == {{<<"x", "lte", 0>>}}

\* sort('-x')
SortArgs == {<<"x", -1>>}

ColSpecs == {[kind |-> "name", col |-> "x"], [kind |-> "list", cols |-> <<"x">>],
             [kind |-> "list", cols |-> <<"x", "y">>]}

Slices(lo, hi) ==
    {[kind |-> "slice", a |-> <<a>>, b |-> <<b>>] : a \in lo..hi, b \in lo..hi}

RowSpecs(lo, hi) ==
    {[kind |-> "scalar", v |-> v] : v \in lo..hi}
        \cup {[kind |-> "list", vs |-> <<v>>] : v \in lo..hi}
        \cup {sl \in Slices(lo, hi) : sl.a[1] =< sl.b[1]}

\* specs of frame.loc[...]
LocSpecs ==
    RowSpecs(0, 1)
        \cup {[kind |-> "tuple", rows |-> r, cols |-> "x"] :
                  r \in {q \in RowSpecs(0, 1) : q.kind # "scalar"}}

\* specs of frame.iloc[...]
IlocSpecs == RowSpecs(0, NRows)

Pipelines == {<<>>, <<[stage |-> "$limit", n |-> 1]>>}

AggregateKwargs == {{}, {<<"allowDiskUse", FALSE>>}, {<<"allowDiskUse", TRUE>>}}

ViewWrites == {"insert", "update", "remove", "save"}

\* ------------------------------------------------------------ FrameSpec
\* the variables of the transform engine, which the frame layer leaves alone
parVars == <<engine, args, metas, pyapply_opts, mtransform, pc, jobs,
             jobState, call, run>>

\* no transform is pending and no pool is running
NoSession ==
    /\ engine = "mdf"
    /\ args = None
    /\ metas = {SrcName}
    /\ pyapply_opts = NoOpts
    /\ mtransform = NoTransform
    /\ pc = "idle"
    /\ jobs = <<>>
    /\ jobState = <<>>
    /\ call = NoCall
    /\ run = 0

\* the frames a client has at the start: om.datasets.getl('src'), narrowed
\* to columns, to a series, or built with a query
InitFrames ==
    LET base == {[MDataFrame(SrcColl, q) EXCEPT !.columns = cols] :
                     q \in {{}, {<<"x", "gte", 1>>}},
                     cols \in {<<"x">>, <<"x", "y">>}}
    IN  base \cup {as_mseries(f, "x") : f \in base}

FrameInit ==
    /\ NoSession
    /\ \E docs \in FrameDocs :
           db = [c \in CollNames |-> IF c = SrcColl THEN docs ELSE <<>>]
    /\ frame \in InitFrames
    /\ last = NoLast

\* the view frame.collection: the underlying documents and the fixed query
ViewDocs == db[frame.coll]

\* a call on `self` that leaves the database alone
FrameOp(c, self1) ==
    /\ last' = c
    /\ frame' = self1
    /\ UNCHANGED <<db, parVars>>

\* frame.query(**kw)
QueryCall ==
    \E kw \in QueryArgs :
        FrameOp(FrameCall("query", kw, frame, query(frame, Filter(kw)), FALSE, None),
                frame)

\* frame.query(**f).query(**g): query() on the frame the last query()
\* returned; the call is recorded with both filters and the first frame
ChainedQueryCall ==
    /\ last.op = "query"
    /\ \E kw \in QueryArgs :
           FrameOp(FrameCall("query.query",
                             [f |-> last.arg, g |-> kw, base |-> last.self0],
                             last.out, query(last.out, Filter(kw)), FALSE, None),
                   frame)

\* frame.query_inplace(**kw)
QueryInplaceCall ==
    \E kw \in InplaceArgs :
        FrameOp(FrameCall("query_inplace", kw, frame, query_inplace(frame, kw),
                          TRUE, None),
                query_inplace(frame, kw))

\* frame.sort(columns)
SortCall ==
    \E o \in SortArgs :
        FrameOp(FrameCall("sort", o, frame, sort(frame, o), TRUE, None),
                sort(frame, o))

\* frame.head(1)
HeadCall ==
    FrameOp(FrameCall("head", 1, frame, head(frame, 1), TRUE, None),
            head(frame, 1))

\* frame.skip(1)
SkipCall ==
    FrameOp(FrameCall("skip", 1, frame, skip(frame, 1), TRUE, None),
            skip(frame, 1))

\* frame[cols]
GetItemCall ==
    \E cols \in ColSpecs :
        FrameOp(FrameCall("getitem", cols, frame, getitem(frame, cols), FALSE, None),
                frame)

\* frame.loc[spec]
LocCall ==
    \E spec \in LocSpecs :
        FrameOp(FrameCall("loc", spec, frame, loc_getitem(frame, spec, FALSE),
                          FALSE, None),
                frame)

\* frame.iloc[spec]
IlocCall ==
    \E spec \in IlocSpecs :
        FrameOp(FrameCall("iloc", spec, frame, loc_getitem(frame, spec, TRUE),
                          FALSE, None),
                frame)

\* for key, data in frame.groupby(cols): ...
GroupbyCall ==
    \E cols \in {<<"idx">>, <<"x">>, <<"idx", "y">>} :
        FrameOp(FrameCall("groupby", cols, frame, None, FALSE,
                          grouper_iter(ViewDocs, frame.filter_criteria, cols)),
                frame)

\* len(frame)
LenCall ==
    FrameOp(FrameCall("len", None, frame, None, FALSE, Count(db, frame)), frame)

\* frame.value
FrameValueCall ==
    FrameOp(FrameCall("value", [via |-> "self", spec |-> None], frame, None, FALSE,
                      [shape |-> value_shape(db, frame), rows |-> Value(db, frame)]),
            frame)

\* the operations that return a frame other than self
Deriving == {"query", "getitem", "loc", "iloc"}

\* .value of the frame the last call returned, as in frame.loc[spec].value:
\* the call is recorded with the returned frame as its self, and with the
\* operation and argument that made it
ResultValueCall ==
    /\ last.op \in Deriving
    /\ FrameOp(FrameCall("value", [via |-> last.op, spec |-> last.arg], last.out,
                         None, FALSE,
                         [shape |-> value_shape(db, last.out),
                          rows  |-> Value(db, last.out)]),
               frame)

\* frame.list_indexes()
ListIndexesCall ==
    FrameOp(FrameCall("list_indexes", None, frame, None, FALSE, list_indexes(frame)),
            frame)

\* frame.collection.find(filter=f)
ViewFind ==
    \E f \in CallerFilters :
        FrameOp(FrameCall("find", f, frame, None, FALSE,
                          [seen  |-> view_find(ViewDocs, frame.filter_criteria, f),
                           value |-> view_find(ViewDocs, frame.filter_criteria, f)]),
                frame)

\* frame.collection.find_one(filter=f)
ViewFindOne ==
    \E f \in CallerFilters :
        FrameOp(FrameCall("find_one", f, frame, None, FALSE,
                          view_find_one(ViewDocs, frame.filter_criteria, f)),
                frame)

\* frame.collection.count(filter=f)
ViewCount ==
    \E f \in CallerFilters :
        FrameOp(FrameCall("count", f, frame, None, FALSE,
                          view_count(ViewDocs, frame.filter_criteria, f)),
                frame)

\* frame.collection.distinct('x', filter=f)
ViewDistinct ==
    \E f \in CallerFilters :
        FrameOp(FrameCall("distinct", f, frame, None, FALSE,
                          view_distinct(ViewDocs, "x", frame.filter_criteria, f)),
                frame)

\* frame.collection.aggregate(pipeline, filter=f, **kwargs)
ViewAggregate ==
    \E f \in CallerFilters, pl \in Pipelines, kw \in AggregateKwargs :
        FrameOp(FrameCall("aggregate", [filter |-> f, pipeline |-> pl, kwargs |-> kw],
                          frame, None, FALSE,
                          view_aggregate(ViewDocs, frame.filter_criteria, pl, f, kw)),
                frame)

\* frame.collection.insert(...) / update / remove / save; the call is
\* recorded with the documents of the collection before it
ViewWrite ==
    \E op \in ViewWrites :
        LET r == view_write(op, ViewDocs)
        IN  /\ last' = FrameCall(op, ViewDocs, frame, None, FALSE, r)
            /\ db' = [db EXCEPT ![frame.coll] = r.docs]
            /\ UNCHANGED <<frame, parVars>>

FrameNext ==
    \/ QueryCall
    \/ ChainedQueryCall
    \/ QueryInplaceCall
    \/ SortCall
    \/ HeadCall
    \/ SkipCall
    \/ GetItemCall
    \/ GroupbyCall
    \/ LocCall
    \/ IlocCall
    \/ LenCall
    \/ FrameValueCall
    \/ ResultValueCall
    \/ ListIndexesCall
    \/ ViewFind
    \/ ViewFindOne
    \/ ViewCount
    \/ ViewDistinct
    \/ ViewAggregate
    \/ ViewWrite

FrameSpec == FrameInit /\ [][FrameNext]_vars

\* ================================================================ merge
\* MDataFrame.merge (omegaml/mdataframe.py) through $lookup, $unwind,
\* $project and $out.  A behaviour of MergeSpec is a client with a left frame
\* `self` over the collection of 'src' and right frames over a second
\* collection; both have the key column k and a column c, the left the data
\* column a, the right the data column b.

\* rows of the right collection
NRight == 2

\* np.NaN, the null marker of a resolved frame; data values are >= 0
NaN == 0 - 1

RightColl == "right.datastore"

\* the collection merge() is told to write to (target=)
TargetColl == "merged"

MergeColls == {SrcColl, RightColl, TargetColl}

KeyValues == 0..1

LeftDoc(rowid, k, a) == [rowid |-> rowid, k |-> k, a |-> a, c |-> 0]

RightDoc(rowid, k, b) == [rowid |-> rowid, k |-> k, b |-> b, c |-> 1]

\* what om.datasets.put leaves for the two dataframes: any key values, also
\* the same one in several rows
LeftDocs == {[p \in 1..NRows |-> LeftDoc(p - 1, ks[p], p - 1)] :
                 ks \in [1..NRows -> KeyValues]}

RightDocs == {[p \in 1..NRight |-> RightDoc(p - 1, ks[p], p - 1)] :
                  ks \in [1..NRight -> KeyValues]}

\* the left frames and the right frames of the client
LeftFrames ==
    {[MDataFrame(SrcColl, q) EXCEPT !.columns = <<"k", "a", "c">>] :
         q \in {{}, {<<"a", "gte", 1>>}}}

RightFrames ==
    {[MDataFrame(RightColl, q) EXCEPT !.columns = <<"k", "b", "c">>] :
         q \in {{}, {<<"b", "gte", 1>>}}}

\* suffixes=('_x', '_y')
Suffixes == <<"_x", "_y">>

\* the name of an output column: a column and the suffix put after it
OutCol(col, sfx) == <<col, sfx>>

\* the key arguments of merge(): on=, left_on=, right_on= (None for none)
MergeKeys(on, left_on, right_on) ==
    [on |-> on, left_on |-> left_on, right_on |-> right_on]

\* Python's `a or b` for names
Or(a, b) == IF a # None THEN a ELSE b

\* the $project of merge(): for every output column the side and the column
\* it is read from; left columns first, then the right columns.  `on` is
\* the key after `on = on or '_id'`
merge_project(lcols, rcols, on, left_on, right_on) ==
    LET lproj == [i \in 1..Len(lcols) |->
                     [name |-> OutCol(lcols[i],
                                      IF lcols[i] # Or(on, left_on)
                                             /\ lcols[i] \in Range(rcols)
                                      THEN Suffixes[1] ELSE ""),
                      side |-> "left", src |-> lcols[i]]]
        rkeep == SelectSeq(rcols, LAMBDA c : ~(c = Or(on, right_on)
                                                   /\ c = Or(on, left_on)))
        rproj == [i \in 1..Len(rkeep) |->
                     [name |-> OutCol(rkeep[i],
                                      IF rkeep[i] \in Range(lcols)
                                      THEN Suffixes[2] ELSE ""),
                      side |-> "right", src |-> rkeep[i]]]
    IN  lproj \o rproj

\* the pipeline of left.merge(right, ...) for how in {'left', 'inner'}:
\* lookup, unwind, project, the sort stage if sort is set, out
merge_pipeline(left, right, keys, how, sorted) ==
    LET on           == Or(keys.on, "_id")
        target_field == <<right.coll, Or(keys.right_on, on)>>
    IN  <<[stage |-> "$lookup", from |-> right.coll,
           localField |-> Or(keys.left_on, on),
           foreignField |-> Or(keys.right_on, on), as |-> target_field],
          [stage |-> "$unwind", path |-> target_field,
           preserve |-> how # "inner"],
          [stage |-> "$project",
           project |-> merge_project(left.columns, right.columns, on,
                                     keys.left_on, keys.right_on)]>>
            \o (IF sorted THEN <<[stage |-> "$sort", key |-> on]>> ELSE <<>>)
            \o <<[stage |-> "$out", name |-> TargetColl]>>

\* qops.LOOKUP: the documents of the collection `from` whose foreignField
\* equals the localField of d, in natural order
LOOKUP(dbx, lookup, d) ==
    SelectSeq(dbx[lookup.from],
              LAMBDA e : e[lookup.foreignField] = d[lookup.localField])

\* qops.UNWIND of the looked-up array of d: one document per match; d with
\* no match is kept (without the field) when preserve is set
UNWIND(d, found, preserve) ==
    IF found = <<>>
    THEN IF preserve THEN <<[left |-> d, right |-> <<>>]>> ELSE <<>>
    ELSE [i \in 1..Len(found) |-> [left |-> d, right |-> <<found[i]>>]]

RECURSIVE Unwound(_, _, _, _)
\* $lookup and $unwind over the documents s
Unwound(dbx, s, lookup, unwind) ==
    IF s = <<>> THEN <<>>
    ELSE UNWIND(s[1], LOOKUP(dbx, lookup, s[1]), unwind.preserve)
             \o Unwound(dbx, Drop(s, 1), lookup, unwind)

\* $project of one unwound document: a set of <<name, value>>; a field
\* read from a path that does not exist is left out
ProjectDoc(u, project) ==
    {<<project[i].name, u.left[project[i].src]>> :
         i \in {j \in 1..Len(project) : project[j].side = "left"}}
        \cup {<<project[i].name, u.right[1][project[i].src]>> :
                  i \in {j \in 1..Len(project) :
                             project[j].side = "right" /\ u.right # <<>>}}

\* the fields of a target document and the value of one
Fields(doc) == {f[1] : f \in doc}

Field(doc, name) == (CHOOSE f \in doc : f[1] = name)[2]

\* the value a document is sorted by: _id grows with the order of insertion
SortKey(d, on) == IF on = "_id" THEN d.rowid ELSE d[on]

RECURSIVE SortPairs(_, _)
\* qops.SORT on the key: ascending, equal keys in pipeline order
SortPairs(s, on) ==
    IF s = <<>> THEN <<>>
    ELSE LET u    == s[Len(s)]
             rest == SortPairs(SubSeq(s, 1, Len(s) - 1), on)
         IN  SelectSeq(rest, LAMBDA e : SortKey(e.left, on) =< SortKey(u.left, on))
                 \o <<u>>
                 \o SelectSeq(rest, LAMBDA e : SortKey(e.left, on) > SortKey(u.left, on))

\* MDataFrame._get_fields: the fields of the first document of the
\* collection (none for an empty collection), in the order of the projection
get_fields(docs, project) ==
    IF docs = <<>> THEN <<>>
    ELSE LET all == [i \in 1..Len(project) |-> project[i].name]
         IN  SelectSeq(all, LAMBDA c : c \in Fields(docs[1]))

\* the stages of a pipeline with the given operator
Stages(pipeline, op) == SelectSeq(pipeline, LAMBDA st : st.stage = op)

\* left.merge(right, ..., how=how, target=TargetColl, sort=sorted) for
\* how in {'left', 'inner'}: left.collection.aggregate(pipeline), i.e. the
\* left view's match stage first, then the stages of the pipeline, and the
\* frame on the target that is returned
merge_left(dbx, left, right, keys, how, sorted) ==
    LET pipeline == merge_pipeline(left, right, keys, how, sorted)
        project == pipeline[3].project
        matched == view_aggregate(dbx[left.coll], left.filter_criteria, <<>>, {}, {}).seen
        unwound == Unwound(dbx, matched, pipeline[1], pipeline[2])
        pairs   == IF Stages(pipeline, "$sort") # <<>>
                   THEN SortPairs(unwound, Stages(pipeline, "$sort")[1].key)
                   ELSE unwound
        target  == [i \in 1..Len(pairs) |-> ProjectDoc(pairs[i], project)]
        names   == [i \in 1..Len(project) |-> project[i].name]
    IN  [pairs  |-> pairs,
         target |-> target,
         project |-> project,
         pipeline |-> pipeline,
         frame  |-> [MDataFrame(TargetColl, {}) EXCEPT
                         !.columns = get_fields(target, project),
                         !.force_columns = names]]

\* MDataFrame.merge: how='right' is right.merge(self, on=on,
\* left_on=right_on, right_on=left_on, how='left', target=target,
\* suffixes=suffixes); the sort argument is not among them
merge(dbx, left, right, keys, how, sorted) ==
    IF how = "right"
    THEN merge_left(dbx, right, left,
                    MergeKeys(keys.on, keys.right_on, keys.left_on), "left", FALSE)
    ELSE merge_left(dbx, left, right, keys, how, sorted)

\* MDataFrame._get_dataframe_from_cursor on a frame over the target: the
\* cursor projects the frame's columns, a document without a column gets
\* NaN there, and the force columns that are not among the frame's columns
\* are set to NaN in every row
merged_value(dbx, mdf) ==
    LET docs == Value(dbx, mdf)
        cols == Range(mdf.columns)
        all  == cols \cup Range(mdf.force_columns)
    IN  [i \in 1..Len(docs) |->
            [c \in all |->
                IF c \in cols /\ c \in Fields(docs[i])
                THEN Field(docs[i], c) ELSE NaN]]

\* ------------------------------------------------------------ MergeSpec
MergeInit ==
    /\ NoSession
    /\ \E l \in LeftDocs, r \in RightDocs :
           db = [c \in MergeColls |->
                    IF c = SrcColl THEN l ELSE IF c = RightColl THEN r ELSE <<>>]
    /\ frame \in LeftFrames
    /\ last = NoLast

Hows == {"left", "inner", "right"}

\* merge(..., on='k') and merge(..., left_on='k', right_on='k')
KeyArgs == {MergeKeys("k", None, None), MergeKeys(None, "k", "k")}

\* frame.merge(right, on=/left_on=/right_on=, how=how, target='merged',
\* sort=sorted)
MergeCall ==
    \E right \in RightFrames, keys \in KeyArgs, how \in Hows, sorted \in BOOLEAN :
        LET m == merge(db, frame, right, keys, how, sorted)
        IN  /\ last' = FrameCall("merge",
                                 [right |-> right, keys |-> keys, how |-> how,
                                  sorted |-> sorted],
                                 frame, m.frame, FALSE,
                                 [pairs |-> m.pairs, project |-> m.project,
                                  pipeline |-> m.pipeline])
            /\ db' = [db EXCEPT ![TargetColl] = m.target]
            /\ UNCHANGED <<frame, parVars>>

\* frame.merge(...).value: the returned frame is resolved
MergedValueCall ==
    /\ last.op = "merge"
    /\ FrameOp(FrameCall("value", [via |-> "merge", spec |-> last.arg],
                         last.out, None, FALSE,
                         [pairs   |-> last.result.pairs,
                          project |-> last.result.project,
                          rows    |-> merged_value(db, last.out)]),
               frame)

\* len(frame.merge(...))
MergedLenCall ==
    /\ last.op = "merge"
    /\ FrameOp(FrameCall("len", [via |-> "merge", spec |-> last.arg],
                         last.out, None, FALSE, Count(db, last.out)),
               frame)

MergeNext ==
    \/ MergeCall
    \/ MergedValueCall
    \/ MergedLenCall

MergeSpec == MergeInit /\ [][MergeNext]_vars

\* ======================================================== query operators
\* Python values handed to MongoQueryOps.NEAR are records tagged by type:
\* None, [t |-> "num", v], [t |-> "tuple", vs], [t |-> "str", vs] (a string
\* 'a,b', kept as the numbers float() parses from it), [t |-> "geojson",
\* coordinates] and [t |-> "dict", location, maxd, mind]
PyNone == [t |-> "none"]

\* GeoJSON(lon, lat): the object built of the coordinates, or the assertion
\* 'is not a valid coordinate' where no branch finds any (lon is never a
\* dict here)
GeoJSON(lon, lat) ==
    LET coordinates ==
            IF lon.t = "geojson" THEN <<lon.coordinates[1], lon.coordinates[2]>>
            ELSE IF lon.t = "num" /\ lat.t = "num" THEN <<lon.v, lat.v>>
            ELSE IF lon.t = "tuple" THEN lon.vs
            ELSE IF lon.t = "str" THEN lon.vs
            ELSE <<>>
    IN  IF coordinates = <<>> THEN Fails("AssertionError")
        ELSE Built([t |-> "geojson", coordinates |-> coordinates])

\* MongoQueryOps.NEAR(lon, lat, location, maxd, mind): lon is taken for a
\* string, a tuple, a GeoJSON object or a dict in turn; otherwise the
\* location is used as it was passed (`assert "invalid arguments..."`
\* asserts a non-empty string and never fails). The pair is read from the
\* location and each coordinate is asserted to be truthy
NEAR(lon, lat, location, maxd, mind) ==
    LET made == IF lon.t = "str" THEN GeoJSON(lon, PyNone)
                ELSE IF lon.t = "tuple"
                         THEN GeoJSON([t |-> "num", v |-> lon.vs[1]],
                                      [t |-> "num", v |-> lon.vs[2]])
                ELSE IF lon.t = "geojson" THEN Built(lon)
                ELSE IF lon.t = "dict" THEN GeoJSON(lon.location, PyNone)
                ELSE Built(location)
        maxd1 == IF lon.t = "dict" THEN lon.maxd ELSE maxd
        mind1 == IF lon.t = "dict" THEN lon.mind ELSE mind
        \* bool(v) of a number or None
        Truthy(v) == v.t = "num" /\ v.v # 0
    IN  IF made.raised # None THEN made
        ELSE IF made.value.t = "none" THEN Fails("AttributeError")
        ELSE LET pair == IF made.value.t = "tuple" THEN made.value.vs
                         ELSE made.value.coordinates
             IN  IF pair[1] = 0 \/ pair[2] = 0
                     THEN Fails("AssertionError")
                 ELSE Built([coordinates |-> pair,
                             maxDistance |-> IF Truthy(maxd1) THEN maxd1 ELSE PyNone,
                             minDistance |-> IF Truthy(mind1) THEN mind1 ELSE PyNone])

\* ------------------------------------------------------------- NearSpec
\* the calls: NEAR(lon, lat), NEAR('lon,lat'), NEAR((lon, lat)),
\* NEAR(GeoJSON(lon, lat)), NEAR(dict(location=..., maxd=..., mind=...)),
\* NEAR(location=..., maxd=..., mind=...) and NEAR(), with coordinates 0..2
\* and distances None and 1
NearCalls ==
    LET Pairs == (0..2) \X (0..2)
        PyNum(v) == [t |-> "num", v |-> v]
        PyTuple(vs) == [t |-> "tuple", vs |-> vs]
        PyGeo(vs) == [t |-> "geojson", coordinates |-> vs]
        Distances == {PyNone, PyNum(1)}
        Locations == {PyTuple(p) : p \in Pairs} \cup {PyGeo(p) : p \in Pairs}
        NearArg(lon, lat, location, maxd, mind) ==
            [lon |-> lon, lat |-> lat, location |-> location, maxd |-> maxd,
             mind |-> mind]
    IN  {NearArg(PyNum(p[1]), PyNum(p[2]), PyNone, PyNone, PyNone) : p \in Pairs}
            \cup {NearArg(l, PyNone, PyNone, PyNone, PyNone) :
                      l \in Locations \cup {[t |-> "str", vs |-> p] : p \in Pairs}}
            \cup {NearArg([t |-> "dict", location |-> l, maxd |-> maxd,
                           mind |-> mind],
                          PyNone, PyNone, PyNone, PyNone) :
                      l \in {PyNone} \cup {PyTuple(p) : p \in Pairs},
                      maxd \in Distances, mind \in Distances}
            \cup {NearArg(PyNone, PyNone, l, maxd, mind) :
                      l \in {PyNone} \cup Locations,
                      maxd \in Distances, mind \in Distances}

NearInit ==
    /\ NoSession
    /\ db = [c \in CollNames |-> <<>>]
    /\ frame = MDataFrame(SrcColl, {})
    /\ last = NoLast

\* qops.NEAR(...)
NearCall ==
    \E a \in NearCalls :
        FrameOp(FrameCall("NEAR", a, None, None, FALSE,
                          NEAR(a.lon, a.lat, a.location, a.maxd, a.mind)),
                frame)

NearNext == NearCall

NearSpec == NearInit /\ [][NearNext]_vars

\* ====================================================== column positions
\* frames of two and three columns, one of them with a name of several
\* characters
PosInit ==
    /\ NoSession
    /\ \E docs \in FrameDocs :
           db = [c \in CollNames |-> IF c = SrcColl THEN docs ELSE <<>>]
    /\ frame \in {[MDataFrame(SrcColl, {}) EXCEPT !.columns = cols] :
                      cols \in {<<"x", "y">>, <<"idx", "x">>, <<"idx", "x", "y">>}}
    /\ last = NoLast

\* frame.iloc[rows, columns]: rows a position or a slice of positions,
\* columns a position, a list of positions or a slice of positions
IlocColumnsCall ==
    LET PosRowSpecs ==
            {[kind |-> "scalar", v |-> r] : r \in 0..(NRows - 1)}
                \cup {sl \in Slices(0, NRows) : sl.a[1] < sl.b[1]}
        PosColumnSpecs ==
            {[kind |-> "scalar", v |-> j] : j \in 0..1}
                \cup {[kind |-> "list", vs |-> vs] : vs \in {<<0>>, <<1>>, <<0, 1>>}}
                \cup {sl \in Slices(0, 2) : sl.a[1] < sl.b[1]}
    IN  \E rows \in PosRowSpecs, pcols \in PosColumnSpecs :
            LET spec == [kind |-> "ptuple", rows |-> rows, pcols |-> pcols]
            IN  FrameOp(FrameCall("iloc", spec, frame,
                                  loc_getitem(frame, spec, TRUE), FALSE, None),
                        frame)

PosNext == IlocColumnsCall

PosSpec == PosInit /\ [][PosNext]_vars

\* =============================================================== append
\* MDataFrame.append(other): other.collection.map_reduce merges the mapped
\* rows of other's collection into self's collection as {_id, value}
\* documents (the mapper raises the row's _om#rowid by len(self) if it is
\* truthy), then self.collection.aggregate([$replaceRoot, $out]) rewrites
\* self's collection.  A frame with a filter holds a FilteredCollection:
\* as `other` it has no map_reduce; as `self` its aggregate() puts the
\* frame's filter first, which no {_id, value} document passes
append(dbx, self, other) ==
    LET n      == Count(dbx, self)
        right  == dbx[other.coll]
        mapped == [i \in 1..Len(right) |->
                      [right[i] EXCEPT !.rowid = IF @ # 0 THEN @ + n ELSE @]]
    IN  IF other.filter_criteria # {}
        THEN [raised |-> "AttributeError", docs |-> dbx[self.coll]]
        ELSE [raised |-> None,
              docs   |-> IF self.filter_criteria = {}
                         THEN dbx[self.coll] \o mapped
                         ELSE view_aggregate(dbx[self.coll], self.filter_criteria,
                                             <<>>, {}, {}).seen]

\* ------------------------------------------------------------ AppendSpec
AppendFrames(coll) == {MDataFrame(coll, q) : q \in {{}, {<<"x", "gte", 1>>}}}

\* the rows of the dataset appended are stamped 0..NRight-1 and have y = 1
AppendInit ==
    /\ NoSession
    /\ \E docs \in FrameDocs, ix \in [1..NRight -> IdxValues] :
           db = [c \in {SrcColl, RightColl} |->
                    IF c = SrcColl THEN docs
                    ELSE [p \in 1..NRight |-> Row(p - 1, ix[p], p - 1, 1)]]
    /\ frame \in AppendFrames(SrcColl)
    /\ last = NoLast

\* frame.append(other)
AppendCall ==
    \E other \in AppendFrames(RightColl) :
        LET r == append(db, frame, other)
        IN  /\ Len(db[SrcColl]) + Len(db[RightColl]) =< NRows + NRight + NRight
            /\ last' = FrameCall("append", other, frame, frame, TRUE,
                                 [raised |-> r.raised, n |-> Count(db, frame),
                                  before |-> db])
            /\ db' = [db EXCEPT ![frame.coll] = r.docs]
            /\ UNCHANGED <<frame, parVars>>

AppendNext == AppendCall

AppendSpec == AppendInit /\ [][AppendNext]_vars

\* ------------------------------------------------------------ properties
RECURSIVE InsertByRowid(_, _)
\* d put into the rowid-sorted s after every document with a rowid <= its own
InsertByRowid(s, d) ==
    IF s = <<>> THEN <<d>>
    ELSE IF s[Len(s)].rowid =< d.rowid THEN Append(s, d)
    ELSE Append(InsertByRowid(SubSeq(s, 1, Len(s) - 1), d), s[Len(s)])

RECURSIVE SortByRowid(_)
\* find().sort('_om#rowid'): equal rowids stay in natural order
SortByRowid(s) ==
    IF s = <<>> THEN <<>>
    ELSE InsertByRowid(SortByRowid(SubSeq(s, 1, Len(s) - 1)), s[Len(s)])

\* the content of documents: what the store holds besides the bookkeeping
\* of the model
Content(s) == [k \in 1..Len(s) |-> <<s[k].rowid, s[k].x, s[k].y>>]

RunRows(c) == SelectSeq(db[c], LAMBDA d : d.run = run)

Min(a, b) == IF a < b THEN a ELSE b

\* rows a..b (counted from 1) of s, as far as s has them
Slice(s, a, b) == IF a > Min(b, Len(s)) THEN <<>> ELSE SubSeq(s, a, Min(b, Len(s)))

Dispatched == pc = "pool" /\ \A k \in 1..Len(jobs) : jobState[k] = "pending"

\* the call handed jobs to the pool and every job ended without error
Completed ==
    /\ pc = "idle"
    /\ call.target # None
    /\ \A k \in 1..Len(jobs) : jobState[k] = "done"

ProperTarget == call.target \notin {None, frame.coll}

\* C1: in one run, two distinct chunks never write the same _om#rowid to
\* the output collection, whatever the user function returns.
C1_DisjointRowids ==
    ProperTarget =>
        \A a, b \in 1..Len(db[call.target]) :
            LET da == db[call.target][a]
                db_ == db[call.target][b]
            IN  (da.run = run /\ db_.run = run /\ da.chunk # db_.chunk)
                    => da.rowid # db_.rowid

\* fn run once over the first maxobs rows of the frame as chunk 0
Serial(fn, maxobs) ==
    Stamp(ApplyFn(fn, Take(Value(call.db0, frame), maxobs)).rows, 0, run, 0)

\* C2: for a pure row-count-preserving function and maxobs a multiple of
\* chunksize, transform(fn).persist() leaves exactly maxobs rows, and the
\* output sorted by _om#rowid equals fn run once over the frame.
C2_EqualsSerial ==
    (/\ engine = "mdf"
     /\ Completed
     /\ ProperTarget
     /\ call.op = "persist"
     /\ call.outcome \in {"frame", "meta"}
     /\ ~call.append
     /\ call.applyfn \in {"map", "nop"}
     /\ pyapply_opts.maxobs % pyapply_opts.chunksize = 0
     /\ pyapply_opts.maxobs =< Count(call.db0, frame))
        => /\ Len(db[call.target]) = pyapply_opts.maxobs
           /\ Content(SortByRowid(db[call.target]))
                  = Content(Serial(call.applyfn, pyapply_opts.maxobs))

RECURSIVE InOrder(_)
\* what the first n jobs insert when they run one after the other in list
\* order
InOrder(n) ==
    IF n = 0 THEN <<>>
    ELSE InOrder(n - 1) \o
         Stamp(ApplyFn(call.applyfn, Value(call.db0, jobs[n].mdf)).rows,
               jobs[n].i * call.chunksize, run, jobs[n].i)

\* C3: the output read in _om#rowid order is the same for every order in
\* which the pool completes the jobs: it is what running the jobs in list
\* order gives.
C3_OrderIndependent ==
    (Completed /\ ProperTarget)
        => Content(SortByRowid(RunRows(call.target)))
               = Content(SortByRowid(InOrder(Len(jobs))))

\* C4: the default chunker yields ceil(maxobs/chunksize) chunks, and chunk
\* k resolves to exactly the frame's rows k*chunksize ..
\* min((k+1)*chunksize, maxobs)-1.
C4_ChunkBoundaries ==
    (engine = "mdf" /\ Dispatched /\ ProperTarget)
        => /\ Len(jobs) = NChunks(pyapply_opts.chunksize, pyapply_opts.maxobs)
           /\ \A k \in 1..Len(jobs) :
                  Value(db, jobs[k].mdf)
                      = Slice(Value(db, frame),
                              (k - 1) * pyapply_opts.chunksize + 1,
                              Min(k * pyapply_opts.chunksize, pyapply_opts.maxobs))

\* C5: transform() calls the user function zero times, dispatches no job
\* and neither drops nor writes a collection.
C5_TransformIsLazy ==
    call.op = "transform"
        => /\ call.target = None
           /\ call.dispatched = 0
           /\ call.dropped = {}
           /\ call.fncalls = 0
           /\ call.writes = 0

\* C6: once persist() or .value has run the pool to completion, the frame
\* holds no pending transform.
C6_ConsumedOnce ==
    (/\ engine = "mdf"
     /\ Completed
     /\ call.op \in {"persist", "value"}
     /\ call.outcome \in {"frame", "meta", "value"})
        => ~pyapply_opts.active

\* s is an initial part of t
IsPrefix(s, t) == Len(s) =< Len(t) /\ SubSeq(t, 1, Len(s)) = s

\* C7: when a persist(append=False) has run all its chunk jobs, the output
\* collection holds only rows of this run; with append=True every row it
\* held before is still there.  Both engines.
C7_ReplaceOrAppend ==
    (Completed /\ ProperTarget /\ call.op = "persist")
        => IF call.append
           THEN IsPrefix(call.db0[call.target], db[call.target])
           ELSE \A k \in 1..Len(db[call.target]) : db[call.target][k].run = run

\* C8: when the user function raised in a chunk, the call that ran the
\* pool ends by raising the chunk error that carries the function's
\* exception, and returns neither metadata nor a frame.
C8_ChunkErrorPropagates ==
    (pc = "idle" /\ call.fnraised > 0)
        => /\ call.outcome = "error"
           /\ call.error = "RuntimeError"
           /\ call.cause = FnError
           /\ call.result = None

\* a persist() ended by the chunk error after another chunk had written
C8_Witness ==
    /\ pc = "idle"
    /\ call.op = "persist"
    /\ call.fnraised > 0
    /\ call.writes > 0
    /\ call.outcome = "error"
    /\ call.cause = FnError

\* C9: after persist() or .value failed (a chunk's function or the store
\* raised), the frame's declared state and its pending transform options,
\* output name and append flag included, are what they were before the
\* call.
C9_FailureLeavesState ==
    (/\ engine = "mdf"
     /\ pc = "idle"
     /\ call.op \in {"persist", "value"}
     /\ call.outcome = "error")
        => /\ frame = call.frame0
           /\ pyapply_opts = call.opts0

\* C10: when every chunk job completed without error, persist(name, store)
\* returns the metadata if both a name and a store were given and else a
\* frame on the output collection, and does not raise.  Both engines.
C10_PersistReturns ==
    (Completed /\ call.op = "persist")
        => /\ call.outcome = IF call.name # None /\ call.store # None
                             THEN "meta" ELSE "frame"
           /\ call.result = call.target


\* ---------------------------------------------------------- frame layer
\* C11: query(), sort() and column selection return a new frame and leave
\* the frame they are called on as it was; of all operations only
\* query_inplace() changes the state of its frame.
C11_RefineLeavesSelf ==
    /\ last.op \in {"query", "sort", "getitem"}
           => ~last.is_self /\ frame = last.self0
    /\ last.op \notin {"none", "query_inplace"} => frame = last.self0

\* the calls of the view that read documents
ViewReads == {"find", "find_one", "count", "distinct", "aggregate"}

\* the filter= argument of a call of the view
CallerFilter == IF last.op = "aggregate" THEN last.arg.filter ELSE last.arg

\* C12: a read through the view (find, find_one, count, distinct,
\* aggregate) only ever sees documents that satisfy the view's fixed filter,
\* also when the caller's filter constrains a field the fixed filter
\* constrains.
C12_ReadsWithinFixedFilter ==
    last.op \in ViewReads =>
        \A k \in 1..Len(last.result.seen) :
            Matches(last.result.seen[k], last.self0.filter_criteria)

\* C13: insert, update, remove and save on a view raise the error for an
\* unsupported operation and leave the documents of the collection as they
\* were before the call.
C13_WritesUnsupported ==
    last.op \in ViewWrites =>
        /\ last.result.error = "NotImplementedError"
        /\ db[last.self0.coll] = last.arg

\* a write was tried on a view over a collection that holds documents
C13_Witness ==
    /\ last.op = "remove"
    /\ last.result.error = "NotImplementedError"
    /\ Len(db[last.self0.coll]) = NRows
    /\ last.self0.filter_criteria # {}

\* C14: the pipeline aggregate() sends starts with the match stage that
\* holds the fixed filter, and is sent with allowDiskUse=True, for every
\* pipeline and every option of the caller.
C14_AggregateMatchFirst ==
    last.op = "aggregate" =>
        /\ last.result.pipeline[1].stage = "$match"
        /\ last.self0.filter_criteria \subseteq last.result.pipeline[1].q
        /\ SubSeq(last.result.pipeline, 2, Len(last.result.pipeline))
               = last.arg.pipeline
        /\ <<"allowDiskUse", TRUE>> \in last.result.kwargs
        /\ <<"allowDiskUse", FALSE>> \notin last.result.kwargs

\* C14 where the caller passes no filter= or one on other columns
C14_Side ==
    (/\ last.op = "aggregate"
     /\ \A c \in last.self0.filter_criteria, e \in last.arg.filter : c[1] # e[1])
        => C14_AggregateMatchFirst

\* C12 where the caller passes no filter= or one on other columns
C12_Side ==
    (/\ last.op \in ViewReads
     /\ \A c \in last.self0.filter_criteria, e \in CallerFilter : c[1] # e[1])
        => C12_ReadsWithinFixedFilter

\* the row part of an index spec
SpecRows(spec) == IF spec.kind = "tuple" THEN spec.rows ELSE spec

\* .value was taken of the frame that frame.loc[spec] returned
LocValue == last.op = "value" /\ last.arg.via = "loc"

\* C15: where exactly one row has the index value v, loc[v] on a frame of
\* one column resolves to a scalar, and loc[[v]] (list of one value)
\* resolves to one row that is never collapsed: a table of one row for a
\* frame, a column of one value for a series; also when the list comes with
\* a column projection.
C15_ListOfOneNotCollapsed ==
    (LocValue /\ Len(last.result.rows) = 1) =>
        LET rows == SpecRows(last.arg.spec)
        IN  /\ (rows.kind = "scalar" /\ Len(last.self0.columns) = 1)
                   => last.result.shape = "scalar"
            /\ rows.kind = "list"
                   => last.result.shape
                          = IF last.self0.class = "MSeries" THEN "column"
                            ELSE "table"

\* the same for loc[[v]] on a frame without a column projection
C15_Side ==
    (/\ LocValue
     /\ Len(last.result.rows) = 1
     /\ last.self0.class = "MDataFrame"
     /\ last.arg.spec.kind # "tuple")
        => C15_ListOfOneNotCollapsed

\* .value was taken of a frame (not a series)
FrameValue == last.op = "value" /\ last.self0.class = "MDataFrame"

\* the shape the rules give a result of n rows and m columns from an
\* indexer without range flag; several is the shape for one column of
\* several rows
CollapsedShape(n, m, several) ==
    CASE n = 1 /\ m = 1 -> "scalar"
      [] n = 1 /\ m > 1 -> "row"
      [] n > 1 /\ m = 1 -> several
      [] OTHER -> "table"

ShapeFollows(several) ==
    FrameValue =>
        IF ~last.self0.from_loc_indexer
        THEN last.result.shape = "table"
        ELSE ~last.self0.from_loc_range
                 => last.result.shape
                        = CollapsedShape(Len(last.result.rows),
                                         Len(last.self0.columns), several)

SliceCall == last.op \in {"loc", "iloc"} /\ last.arg.kind = "slice"

\* the rows of s whose column col lies in lo..hi
Between(s, col, lo, hi) == SelectSeq(s, LAMBDA d : d[col] \in lo..hi)

\* C17: for integers a <= b, frame.loc[a:b] selects exactly the rows of the
\* frame with an index value in a..b, both ends included, and
\* frame.iloc[a:b] exactly the rows at the positions (_om#rowid) a..b-1;
\* iloc[a:a] selects no row.
C17_SliceBounds ==
    SliceCall =>
        LET a    == last.arg.a[1]
            b    == last.arg.b[1]
            rows == Filtered(db, last.self0)
            sel  == Filtered(db, last.out)
        IN  IF last.op = "loc"
            THEN sel = Between(rows, "idx", a, b)
            ELSE /\ sel = Between(rows, "rowid", a, b - 1)
                 /\ a = b => sel = <<>>

\* iloc[a:a] was called where the frame has a row at position a
C17_Witness ==
    /\ SliceCall
    /\ last.op = "iloc"
    /\ last.arg.a = last.arg.b
    /\ Between(Filtered(db, last.self0), "rowid", last.arg.a[1], last.arg.a[1]) # <<>>
    /\ Filtered(db, last.out) = <<>>

\* C18: with no transform pending, len(frame) is the number of rows of
\* frame.value, whatever filter, skip and limit the frame has.
C18_LenIsRowsOfValue ==
    (last.op = "len" /\ ~pyapply_opts.active)
        => last.result = Len(Value(db, last.self0))

\* the same for frames without skip and limit
C18_Side ==
    (last.op = "len" /\ last.self0.skip_topn = 0 /\ last.self0.head_limit = 0)
        => C18_LenIsRowsOfValue

\* ---------------------------------------------------------------- merge
\* frame.merge(right, how=how) was called
Merged(how) == last.op = "merge" /\ last.arg.how = how

\* the rows of the frames A (self) and B (right) of the merge
RowsOfA == Filtered(db, last.self0)

RowsOfB == Filtered(db, last.arg.right)

\* the rows of A whose key is the key of a row of B
MatchingKeys ==
    {i \in 1..Len(RowsOfA) :
         \E j \in 1..Len(RowsOfB) : RowsOfB[j].k = RowsOfA[i].k}

\* C19: the target of A.merge(B, on=k, how='left') holds exactly len(A)
\* rows and the target of how='inner' exactly as many rows as there are
\* matching keys, for all key values in A and B, also where a key value is
\* in several rows of B.
C19_MergeRowCounts ==
    /\ Merged("left") => Len(db[TargetColl]) = Count(db, last.self0)
    /\ Merged("inner") => Len(db[TargetColl]) = Cardinality(MatchingKeys)

\* each key value is in at most one document of the right collection
RightKeysUnique ==
    \A i, j \in 1..Len(db[RightColl]) :
        db[RightColl][i].k = db[RightColl][j].k => i = j

\* the same for an unfiltered B whose key values are all different
C19_Side ==
    (last.op = "merge" /\ last.arg.right.filter_criteria = {} /\ RightKeysUnique)
        => C19_MergeRowCounts

\* the same for a B whose key values are all different
C19_SideFiltered ==
    (last.op = "merge" /\ RightKeysUnique) => C19_MergeRowCounts

\* the same for an unfiltered B
C19_SideDuplicates ==
    (last.op = "merge" /\ last.arg.right.filter_criteria = {}) => C19_MergeRowCounts

\* the frame returned by A.merge(B, how='left') was resolved
LeftMergeValue ==
    last.op = "value" /\ last.arg.via = "merge" /\ last.arg.spec.how = "left"

\* in row i of the resolved frame every right-hand column holds v(j) for
\* the j-th column of the projection
RightColumnsAre(i, v(_)) ==
    \A j \in 1..Len(last.result.project) :
        last.result.project[j].side = "right"
            => last.result.rows[i][last.result.project[j].name] = v(j)

\* C20: the resolved frame of A.merge(B, how='left') has, for a left row
\* without match in B, the null marker in every right-hand column, and for a
\* left row with a match the values of the matched document of B, whichever
\* document is the first of the target collection.
C20_LeftMergeNulls ==
    LeftMergeValue =>
        /\ Len(last.result.rows) = Len(last.result.pairs)
        /\ \A i \in 1..Len(last.result.rows) :
               LET u == last.result.pairs[i]
                   matched(j) == u.right[1][last.result.project[j].src]
                   null(j) == NaN
               IN  IF u.right = <<>> THEN RightColumnsAre(i, null)
                   ELSE RightColumnsAre(i, matched)

\* the same where the first document of the target is a left row with a match
C20_Side ==
    (/\ LeftMergeValue
     /\ last.result.pairs # <<>>
     /\ last.result.pairs[1].right # <<>>)
        => C20_LeftMergeNulls

\* what B.merge(A, how='left', left_on=r, right_on=l, sort=o) builds and
\* writes, for the A.merge(B, how='right', left_on=l, right_on=r, sort=o)
\* that was called
SwappedLeftMerge ==
    merge(db, last.arg.right, last.self0,
          MergeKeys(last.arg.keys.on, last.arg.keys.right_on, last.arg.keys.left_on),
          "left", last.arg.sorted)

\* C21: A.merge(B, how='right', left_on=l, right_on=r, target=t, sort=o)
\* builds and runs the pipeline of B.merge(A, how='left', left_on=r,
\* right_on=l, target=t, sort=o): the same stages, the sort stage
\* included, and the same target.
C21_RightIsSwappedLeft ==
    Merged("right") =>
        /\ last.result.pipeline = SwappedLeftMerge.pipeline
        /\ db[TargetColl] = SwappedLeftMerge.target

\* the same for sort=False
C21_Side == (Merged("right") /\ ~last.arg.sorted) => C21_RightIsSwappedLeft

\* the frame whose documents the pipeline of the last merge reads, and the
\* frame it looks up
PipelineLeft == IF last.arg.how = "right" THEN last.arg.right ELSE last.self0

PipelineRight == IF last.arg.how = "right" THEN last.self0 ELSE last.arg.right

\* the join key the caller named, as on= or as left_on=/right_on=
JoinKey == Or(last.arg.keys.on, last.arg.keys.left_on)

\* the entries of the projection that read the column col
ProjectedFrom(col) ==
    {last.result.project[i] :
         i \in {j \in 1..Len(last.result.project) :
                    last.result.project[j].src = col}}

\* C22: in the projection of a merge a left column whose name is also a
\* right column is emitted as name+suffixes[0] and the right column as
\* name+suffixes[1]; the join key is emitted once, under its own name, for
\* on= as for left_on=/right_on=.
C22_ProjectionSuffixes ==
    last.op = "merge" =>
        \A col \in Range(PipelineLeft.columns) \cap Range(PipelineRight.columns) :
            ProjectedFrom(col)
                = IF col = JoinKey
                  THEN {[name |-> OutCol(col, ""), side |-> "left", src |-> col]}
                  ELSE {[name |-> OutCol(col, Suffixes[1]), side |-> "left",
                         src |-> col],
                        [name |-> OutCol(col, Suffixes[2]), side |-> "right",
                         src |-> col]}

\* the same where the key is given as on=
C22_Side == (last.op = "merge" /\ last.arg.keys.on # None) => C22_ProjectionSuffixes

\* ---------------------------------------------------------- frame layer
\* F.query(f).query(g) was called
ChainedQuery == last.op = "query.query"

\* C23: the rows of F.query(f).query(g) are exactly the rows of F that
\* satisfy f and g, also where g constrains a column that f constrains.
C23_QueryKeepsFilters ==
    ChainedQuery =>
        Filtered(db, last.out)
            = SelectSeq(Filtered(db, last.arg.base),
                        LAMBDA d : /\ Matches(d, Filter(last.arg.f))
                                   /\ Matches(d, Filter(last.arg.g)))

\* the columns a set of constraints names
ColumnsOf(q) == {c[1] : c \in q}

\* the same where f, g and the filter of F name different columns
C23_Side ==
    (/\ ChainedQuery
     /\ ColumnsOf(last.arg.f) \cap ColumnsOf(last.arg.g) = {}
     /\ ColumnsOf(last.arg.base.filter_criteria)
            \cap (ColumnsOf(last.arg.f) \cup ColumnsOf(last.arg.g)) = {})
        => C23_QueryKeepsFilters

\* frame.groupby(cols) was iterated
Grouped == last.op = "groupby"

\* C24: iterating frame.groupby(keys) yields one (key, subframe) pair for
\* every distinct key among the frame's rows and no other; each subframe
\* resolves to exactly the frame's rows with that key, so the subframes are
\* disjoint and hold every row of the frame once.
C24_GroupsPartitionRows ==
    Grouped =>
        LET rows == Filtered(db, last.self0)
            g    == last.result
        IN  /\ \A i, j \in 1..Len(g) : g[i].key = g[j].key => i = j
            /\ {g[i].key : i \in 1..Len(g)}
                   = {GroupKey(rows[n], last.arg) : n \in 1..Len(rows)}
            /\ \A i \in 1..Len(g) :
                   g[i].rows = SelectSeq(rows,
                                         LAMBDA d : GroupKey(d, last.arg) = g[i].key)

\* a filtered frame was grouped whose collection has a row with another key
\* outside the frame
C24_Witness ==
    /\ Grouped
    /\ last.self0.filter_criteria # {}
    /\ Len(last.result) = 1
    /\ \E n \in 1..Len(db[last.self0.coll]) :
           GroupKey(db[last.self0.coll][n], last.arg) # last.result[1].key

\* --- C25
\* the coordinate pair a NEAR call carries, <<>> where it carries none
PairOf(v) ==
    IF v.t \in {"tuple", "str"} THEN v.vs
    ELSE IF v.t = "geojson" THEN v.coordinates
    ELSE IF v.t = "dict" /\ v.location.t = "tuple" THEN v.location.vs
    ELSE <<>>

NearPair(a) ==
    IF a.lon.t = "num" /\ a.lat.t = "num" THEN <<a.lon.v, a.lat.v>>
    ELSE IF PairOf(a.lon) # <<>> THEN PairOf(a.lon)
    ELSE PairOf(a.location)

\* C25: building a near predicate raises exactly when the call carries no
\* coordinates; a call with a full pair, a 0 in it included, does not raise
C25_NearRaisesIffNoCoordinates ==
    last.op = "NEAR" =>
        (last.result.raised # None <=> NearPair(last.arg) = <<>>)

\* what NEAR does: it raises also for a pair with a 0 in it and for a pair
\* passed as the numbers lon and lat; otherwise the expression holds the pair
\* and the distances
C25_Side ==
    last.op = "NEAR" =>
        LET a == last.arg
            pair == NearPair(a)
            r == last.result
        IN  /\ r.raised # None <=>
                   \/ pair = <<>>
                   \/ a.lon.t = "num"
                   \/ 0 \in Range(pair)
            /\ r.raised = None => r.value.coordinates = pair

\* --- C26
\* the positions a column spec names
PositionsOf(pcols) ==
    IF pcols.kind = "scalar" THEN {pcols.v}
    ELSE IF pcols.kind = "list" THEN Range(pcols.vs)
    ELSE {p \in Nat : pcols.a[1] =< p /\ p < pcols.b[1]}

RECURSIVE ColumnsAt(_, _, _)
\* the columns at the positions P, in the frame's column order, from
\* position i on
ColumnsAt(columns, P, i) ==
    IF i > Len(columns) THEN <<>>
    ELSE (IF i - 1 \in P THEN <<columns[i]>> ELSE <<>>)
             \o ColumnsAt(columns, P, i + 1)

\* C26: iloc[r, j] selects exactly the column at position j, a list of
\* positions those columns and a slice a:b the columns a..b-1, in the
\* frame's column order
C26_PositionalColumns ==
    (last.op = "iloc" /\ last.arg.kind = "ptuple") =>
        last.out.columns
            = ColumnsAt(last.self0.columns, PositionsOf(last.arg.pcols), 1)

\* what the indexer does select: one position gives the column at it where
\* the column's name is a single character (and the characters of the name
\* as columns otherwise), a slice gives every column, a list next to a row
\* position gives every column
C26_Side ==
    (last.op = "iloc" /\ last.arg.kind = "ptuple") =>
        LET columns == last.self0.columns
            pcols == last.arg.pcols
        IN  /\ pcols.kind = "scalar" =>
                   last.out.columns = Chars(columns[pcols.v + 1])
            /\ pcols.kind = "slice" => last.out.columns = columns
            /\ (pcols.kind = "list" /\ last.arg.rows.kind = "scalar") =>
                   last.out.columns = columns

\* --- C27
\* the last call is a persist() whose target resolves to the collection the
\* frame reads from: persist(name, store) through the store's key, or
\* persist(name) with the bare collection name
PersistToSource ==
    /\ call.op = "persist"
    /\ call.name # None
    /\ (IF call.store # None THEN StoreKey(call.name) ELSE call.name)
           = call.frame0.coll

\* C27: persist() to the frame's own source collection raises before any
\* drop or insert and leaves the source collection as it was
C27_PersistSparesSource ==
    PersistToSource =>
        /\ call.outcome = "error"
        /\ call.dropped = {}
        /\ call.writes = 0
        /\ db[call.frame0.coll] = call.db0[call.frame0.coll]

\* through a store the guard of persist() holds in both engines; with a bare
\* name the relational mixin raises as well, before it touches anything
C27_Side ==
    (PersistToSource /\ (call.store # None \/ engine = "rel")) =>
        /\ call.outcome = "error"
        /\ call.error \in {"ValueError", "UnboundLocalError", "AssertionError"}
        /\ call.dropped = {}
        /\ call.writes = 0
        /\ db = call.db0

\* --- C28
\* the descriptor mdf is the one computed for chunk index i: skip i*chunksize
\* with a limit (of chunksize rows, or the i*chunksize + chunksize the
\* chunker passes to head()), or the row range i*chunksize ..
\* i*chunksize + chunksize - 1
ComputedFor(mdf, i, chunksize) ==
    \/ /\ mdf.skip_topn = i * chunksize
       /\ mdf.head_limit \in {chunksize, i * chunksize + chunksize}
    \/ {<<"rowid", "gte", i * chunksize>>,
        <<"rowid", "lte", i * chunksize + chunksize - 1>>}
           \subseteq mdf.filter_criteria

\* C28: when the jobs are handed to the pool, the job with chunk index i
\* holds the descriptor computed for i, and no two jobs of the run hold the
\* same descriptor
C28_JobsHoldOwnDescriptor ==
    (engine = "mdf" /\ Dispatched) =>
        /\ \A k \in 1..Len(jobs) :
               ComputedFor(jobs[k].mdf, jobs[k].i, call.chunksize)
        /\ \A j, k \in 1..Len(jobs) : j # k => jobs[j].mdf # jobs[k].mdf

\* the row-range branch of the chunker, taken for a frame without a filter,
\* gives every job its own descriptor; in the skip/limit branch every job
\* holds the descriptor of the last chunk
C28_Side ==
    (engine = "mdf" /\ Dispatched) =>
        IF call.opts0.active /\ call.opts0.mdf.filter_criteria # {}
        THEN \A k \in 1..Len(jobs) :
                 ComputedFor(jobs[k].mdf, Len(jobs) - 1, call.chunksize)
        ELSE /\ \A k \in 1..Len(jobs) :
                    ComputedFor(jobs[k].mdf, jobs[k].i, call.chunksize)
             /\ \A j, k \in 1..Len(jobs) : j # k => jobs[j].mdf # jobs[k].mdf

\* --- C29
\* the rows are stamped 0..n-1 in natural order
Stamped(docs) == \A i \in 1..Len(docs) : docs[i].rowid = i - 1

\* A.append(B) on two whole, stamped collections has returned
Appended ==
    /\ last.op = "append"
    /\ last.result.raised = None
    /\ last.self0.filter_criteria = {}
    /\ Stamped(last.result.before[SrcColl])
    /\ Stamped(last.result.before[RightColl])

\* C29: after A.append(B) every appended row carries its rowid raised by
\* len(A), the row stamped 0 included, so all rowids of A are distinct; B's
\* collection is as it was
C29_AppendOffsetsRowids ==
    Appended =>
        LET a0 == last.result.before[SrcColl]
            b0 == last.result.before[RightColl]
            a1 == db[SrcColl]
        IN  /\ a1 = a0 \o [i \in 1..Len(b0) |->
                               [b0[i] EXCEPT !.rowid = @ + last.result.n]]
            /\ \A i, j \in 1..Len(a1) : i # j => a1[i].rowid # a1[j].rowid
            /\ db[RightColl] = b0

\* what append() does: A's rows stay, B's rows follow with every rowid but 0
\* raised by len(A), and B's collection is as it was
C29_Side ==
    Appended =>
        LET a0 == last.result.before[SrcColl]
            b0 == last.result.before[RightColl]
        IN  /\ db[SrcColl] = a0 \o [i \in 1..Len(b0) |->
                                       [b0[i] EXCEPT !.rowid =
                                            IF @ = 0 THEN 0
                                            ELSE @ + last.result.n]]
            /\ db[RightColl] = b0

\* --- C30
\* C30: list_indexes() of a frame, with a filter or without, returns the
\* index list of the underlying collection
C30_ListIndexesReturns ==
    last.op = "list_indexes" =>
        last.result = Built(collection_list_indexes(last.self0.coll))

\* a frame without a filter returns the list; a frame with a filter ends in
\* the interpreter's recursion error
C30_Side ==
    last.op = "list_indexes" =>
        IF last.self0.filter_criteria = {}
        THEN last.result = Built(collection_list_indexes(last.self0.coll))
        ELSE last.result = Fails("RuntimeError")

====
